---- MODULE Spec2Model ----
(***************************************************************************)
(* Verification model of the neural-population decoding pipelines:         *)
(*   - FreezeUnfreezePOYO        (src/examples/poyo/finetune.py)           *)
(*   - POYO.freeze_middle        (src/kirby/models/poyo.py)                *)
(*   - Compose                   (src/kirby/transforms/__init__.py)        *)
(*   - Collate, build_vocab      (src/kirby/data/dataset.py)               *)
(*   - MaeMaskManager            (src/examples/ndt2/model.py)              *)
(* Each component has its own variables and its own specification; the     *)
(* variables of the other components stay at their idle value.             *)
(***************************************************************************)
EXTENDS Integers, Sequences, FiniteSets, TLC

VARIABLES
    \* FreezeUnfreezePOYO under the Lightning fit loop
    requires_grad,      \* param -> BOOLEAN, the flags of pl_module.model
    frozen_params,      \* the callback's attribute; NoAttr when it has none
    unfreeze_at_epoch,  \* the callback's constructor argument
    max_epochs,         \* trainer.max_epochs (cfg.epochs)
    current_epoch,      \* trainer.current_epoch
    batch_idx,          \* training steps done in the current epoch
    ft_pc               \* position of the fit loop

ftVars == <<requires_grad, frozen_params, unfreeze_at_epoch, max_epochs,
            current_epoch, batch_idx, ft_pc>>

VARIABLES
    \* POYO: freeze_middle / unfreeze_middle
    mid_requires_grad,  \* param -> BOOLEAN, the flags of the POYO module
    mid_result          \* outcome of the last call

midVars == <<mid_requires_grad, mid_result>>

VARIABLES
    \* Compose.__call__
    cmp_transforms,     \* self.transforms
    cmp_input,          \* the argument of the call
    cmp_data,           \* the local `data`
    cmp_i,              \* transforms the for loop has consumed
    cmp_calls,          \* the calls made so far, each <<transform, argument>>
    cmp_result          \* outcome of the call

cmpVars == <<cmp_transforms, cmp_input, cmp_data, cmp_i, cmp_calls, cmp_result>>

VARIABLES
    \* Collate.__call__
    col_sequence_length,    \* self.sequence_length, in ticks
    col_step,               \* self.step, in ticks
    col_num_latents_per_step,
    col_batch,              \* the argument: a list of samples
    col_max_num_tokens,
    col_spike_timestamps,   \* (batch, max_num_tokens)
    col_spike_ids,
    col_spike_type,
    col_mask,
    col_input_mask,
    col_latent_timestamps,  \* (batch, nlatents), in half ticks
    col_latent_ids,
    col_i,                  \* samples the fill loop has consumed
    col_pc

colVars == <<col_sequence_length, col_step, col_num_latents_per_step, col_batch,
             col_max_num_tokens, col_spike_timestamps, col_spike_ids,
             col_spike_type, col_mask, col_input_mask, col_latent_timestamps,
             col_latent_ids, col_i, col_pc>>

VARIABLES
    \* build_vocab
    voc_train_units,    \* the list objects the caller passed
    voc_val_units,      \* optional
    voc_test_units,     \* optional
    voc_result          \* outcome of the call

vocVars == <<voc_train_units, voc_val_units, voc_test_units, voc_result>>

VARIABLES
    \* MaeMaskManager.forward
    mae_mask_ratio,     \* self.mask_ratio, as a numerator over RatioDen
    mae_mode,           \* self.mode
    mae_eval_mode,      \* the eval_mode argument
    mae_batch,          \* the batch dict: key -> tensor
    mae_result          \* outcome of the call

maeVars == <<mae_mask_ratio, mae_mode, mae_eval_mode, mae_batch, mae_result>>

vars == <<ftVars, midVars, cmpVars, colVars, vocVars, maeVars>>

notFtVars == <<midVars, cmpVars, colVars, vocVars, maeVars>>
notMidVars == <<ftVars, cmpVars, colVars, vocVars, maeVars>>
notCmpVars == <<ftVars, midVars, colVars, vocVars, maeVars>>
notColVars == <<ftVars, midVars, cmpVars, vocVars, maeVars>>
notVocVars == <<ftVars, midVars, cmpVars, colVars, maeVars>>
notMaeVars == <<ftVars, midVars, cmpVars, colVars, vocVars>>

\* ------------------------------------------------------------------ helpers

Range(s) == {s[i] : i \in 1..Len(s)}

RECURSIVE Flatten(_)
Flatten(ss) == IF ss = <<>> THEN <<>> ELSE Head(ss) \o Flatten(Tail(ss))

SelectIn(s, S) == SelectSeq(s, LAMBDA x : x \in S)

\* ------------------------------------------------------------------ bounds
\* (sizes of the inputs explored; none of them is a constant of the program)

ParamsPerLayer == 1
MaxTransforms == 3
MaxBatch == 2
MaxSpikes == 3
MaxUnits == 3
MaxSeqLen == 3
MaxStep == 2
MaxLatentsPerStep == 2
MaxNames == 2
MaxTime == 3
MaxSpace == 2
MaxMaeBatch == 2
MaxRandomTokens == 4
MaxEpochs == 3
StepsPerEpoch == 2

\* An optional value is a sequence of length 0 (absent) or 1 (present).
NoAttr == <<>>
Attr(v) == <<v>>
hasattr(a) == Len(a) = 1
getattr(a) == a[1]

\* Outcome of a call: a normal return with its value, or the exception raised.
Returned(v) == [kind |-> "return", value |-> v]
Raised(e) == [kind |-> e, value |-> <<>>]
NotCalled == [kind |-> "none", value |-> <<>>]

\* ------------------------------------------- components that are not running

IdleFinetune ==
    /\ requires_grad = <<>> /\ frozen_params = NoAttr /\ unfreeze_at_epoch = 0
    /\ max_epochs = 0 /\ current_epoch = 0 /\ batch_idx = 0 /\ ft_pc = "idle"

IdleMiddle == mid_requires_grad = <<>> /\ mid_result = NotCalled

IdleCompose ==
    /\ cmp_transforms = <<>> /\ cmp_input = <<>> /\ cmp_data = <<>>
    /\ cmp_i = 0 /\ cmp_calls = <<>> /\ cmp_result = NotCalled

IdleCollate ==
    /\ col_sequence_length = 0 /\ col_step = 0 /\ col_num_latents_per_step = 0
    /\ col_batch = <<>> /\ col_max_num_tokens = 0
    /\ col_spike_timestamps = <<>> /\ col_spike_ids = <<>> /\ col_spike_type = <<>>
    /\ col_mask = <<>> /\ col_input_mask = <<>>
    /\ col_latent_timestamps = <<>> /\ col_latent_ids = <<>>
    /\ col_i = 0 /\ col_pc = "idle"

IdleVocab ==
    /\ voc_train_units = <<>> /\ voc_val_units = NoAttr /\ voc_test_units = NoAttr
    /\ voc_result = NotCalled

IdleMae ==
    /\ mae_mask_ratio = 0 /\ mae_mode = "idle" /\ mae_eval_mode = FALSE
    /\ mae_batch = <<>> /\ mae_result = NotCalled

\* ============================================================ finetune.py

\* layers_to_freeze of FreezeUnfreezePOYO.freeze, in list order
layers_to_freeze ==
    <<"enc_atn", "enc_ffn", "proc_layers", "dec_atn", "dec_ffn",
      "readout", "token_type_emb", "task_emb">>

\* the embeddings main() reads off the model (model.unit_emb, model.session_emb)
EmbeddingLayers == {"unit_emb", "session_emb"}

\* the latent-token embedding the POYO architecture owns besides these
LatentLayers == {"latent_emb"}

ModelLayers == Range(layers_to_freeze) \cup EmbeddingLayers \cup LatentLayers

\* layer.parameters(): the parameters of one layer, in order
parameters(layer) == [i \in 1..ParamsPerLayer |-> <<layer, i>>]

ModelParams == UNION {Range(parameters(l)) : l \in ModelLayers}

LayerOf(p) == p[1]

\* a freshly instantiated model: every nn.Parameter requires grad
FreshModel == [p \in ModelParams |-> TRUE]

\* FreezeUnfreezePOYO.freeze: the parameters visited, in visiting order
FreezeVisited == Flatten([k \in 1..Len(layers_to_freeze) |-> parameters(layers_to_freeze[k])])

\* ... those that required grad are recorded ...
FreezeFrozenParams(rg) == SelectIn(FreezeVisited, {p \in ModelParams : rg[p]})

\* ... and switched off
FreezeRequiresGrad(rg) ==
    [p \in ModelParams |-> IF p \in Range(FreezeVisited) THEN FALSE ELSE rg[p]]

\* a loop that stops one short of the end of frozen_params
UnfreezeAllButLast(rg, fp) ==
    [p \in ModelParams |->
        IF p \in Range(SubSeq(fp, 1, Len(fp) - 1)) THEN TRUE ELSE rg[p]]

\* on_train_epoch_start's loop: every recorded parameter is switched on again
UnfreezeRequiresGrad(rg, fp) ==
    [p \in ModelParams |-> IF p \in Range(fp) THEN TRUE ELSE rg[p]]

InitFinetune ==
    /\ IdleMiddle /\ IdleCompose /\ IdleCollate /\ IdleVocab /\ IdleMae
    /\ requires_grad = FreshModel
    /\ frozen_params = NoAttr
    /\ unfreeze_at_epoch \in 0..MaxEpochs
    /\ max_epochs \in 1..MaxEpochs
    /\ current_epoch = 0
    /\ batch_idx = 0
    /\ ft_pc = "fit"

\* FreezeUnfreezePOYO.on_train_start
on_train_start ==
    /\ UNCHANGED notFtVars
    /\ ft_pc = "fit"
    /\ frozen_params' = Attr(FreezeFrozenParams(requires_grad))
    /\ requires_grad' = FreezeRequiresGrad(requires_grad)
    /\ ft_pc' = "train_started"
    /\ UNCHANGED <<unfreeze_at_epoch, max_epochs, current_epoch, batch_idx>>

\* FreezeUnfreezePOYO.on_train_epoch_start
on_train_epoch_start ==
    /\ UNCHANGED notFtVars
    /\ ft_pc \in {"train_started", "epoch_ended"}
    /\ current_epoch < max_epochs
    /\ IF current_epoch = unfreeze_at_epoch
       THEN IF ~hasattr(frozen_params)
            THEN /\ ft_pc' = "RuntimeError"
                 /\ UNCHANGED <<requires_grad, frozen_params>>
            ELSE /\ requires_grad' = UnfreezeRequiresGrad(requires_grad, getattr(frozen_params))
                 /\ frozen_params' = NoAttr
                 /\ ft_pc' = "epoch_started"
       ELSE /\ ft_pc' = "epoch_started"
            /\ UNCHANGED <<requires_grad, frozen_params>>
    /\ batch_idx' = 0
    /\ UNCHANGED <<unfreeze_at_epoch, max_epochs, current_epoch>>

\* POYOTrainWrapper.training_step, once per batch of the epoch
training_step ==
    /\ UNCHANGED notFtVars
    /\ ft_pc = "epoch_started"
    /\ batch_idx < StepsPerEpoch
    /\ batch_idx' = batch_idx + 1
    /\ UNCHANGED <<requires_grad, frozen_params, unfreeze_at_epoch, max_epochs,
                   current_epoch, ft_pc>>

\* the fit loop closes the epoch and advances trainer.current_epoch
epoch_end ==
    /\ UNCHANGED notFtVars
    /\ ft_pc = "epoch_started"
    /\ batch_idx = StepsPerEpoch
    /\ current_epoch' = current_epoch + 1
    /\ ft_pc' = "epoch_ended"
    /\ UNCHANGED <<requires_grad, frozen_params, unfreeze_at_epoch, max_epochs,
                   batch_idx>>

\* trainer.fit returns once max_epochs epochs have run
fit_done ==
    /\ UNCHANGED notFtVars
    /\ ft_pc = "epoch_ended"
    /\ current_epoch = max_epochs
    /\ ft_pc' = "done"
    /\ UNCHANGED <<requires_grad, frozen_params, unfreeze_at_epoch, max_epochs,
                   current_epoch, batch_idx>>

NextFinetune ==
    \/ on_train_start
    \/ on_train_epoch_start
    \/ training_step
    \/ epoch_end
    \/ fit_done

SpecFinetune == InitFinetune /\ [][NextFinetune]_vars

AllTrainable == \A p \in ModelParams : requires_grad[p]

\* C1: after on_train_start has run, the only parameters that still require
\* grad are those of the unit embedding and of the session embedding.
C1_OnlyEmbeddingsTrainable ==
    ft_pc = "train_started" =>
        \A p \in ModelParams : requires_grad[p] => LayerOf(p) \in EmbeddingLayers

\* C2: once on_train_epoch_start has fired with current_epoch =
\* unfreeze_at_epoch, every parameter of the model requires grad, in that
\* epoch and in every later epoch of the run.
C2_UnfrozenFromEpochE ==
    /\ (ft_pc = "epoch_started" /\ current_epoch >= unfreeze_at_epoch) => AllTrainable
    /\ (ft_pc \in {"epoch_ended", "done"} /\ current_epoch > unfreeze_at_epoch)
           => AllTrainable

\* a run that was frozen for a while and is now in an epoch after the unfreeze
C2_Witness ==
    /\ ft_pc = "epoch_started"
    /\ unfreeze_at_epoch > 0
    /\ current_epoch > unfreeze_at_epoch
    /\ batch_idx > 0
    /\ AllTrainable

\* ================================================================ poyo.py

\* POYO.__init__: the child modules, in registration order (self.children())
POYOChildren ==
    <<"unit_emb", "session_emb", "spike_type_emb", "task_emb", "latent_emb",
      "perceiver_io", "readout">>

POYOParams == UNION {Range(parameters(m)) : m \in Range(POYOChildren)}

\* the attributes freeze_middle reads to build banned_modules, in order
banned_modules == <<"readout", "unit_emb", "session_emb", "enc_atn", "enc_ffn">>

\* nn.Module.__getattr__ raises AttributeError for a name that was never set
HasAttr(name) == name \in Range(POYOChildren)

\* the children freeze_middle's loop does not skip
middle_modules == SelectSeq(POYOChildren, LAMBDA m : m \notin Range(banned_modules))

\* any assignment of the flags is a state of the module: requires_grad is a
\* public attribute of every parameter
InitMiddle ==
    /\ IdleFinetune /\ IdleCompose /\ IdleCollate /\ IdleVocab /\ IdleMae
    /\ mid_requires_grad \in [POYOParams -> BOOLEAN]
    /\ mid_result = NotCalled

\* POYO.freeze_middle
freeze_middle ==
    /\ UNCHANGED notMidVars
    /\ IF \A k \in 1..Len(banned_modules) : HasAttr(banned_modules[k])
       THEN /\ mid_requires_grad' =
                  [p \in POYOParams |->
                      IF LayerOf(p) \in Range(middle_modules)
                      THEN FALSE ELSE mid_requires_grad[p]]
            /\ mid_result' = Returned(middle_modules)
       ELSE /\ mid_result' = Raised("AttributeError")
            /\ UNCHANGED mid_requires_grad

\* POYO.unfreeze_middle
unfreeze_middle ==
    /\ UNCHANGED notMidVars
    /\ mid_requires_grad' = [p \in POYOParams |-> TRUE]
    /\ mid_result' = Returned(<<>>)

NextMiddle == freeze_middle \/ unfreeze_middle

SpecMiddle == InitMiddle /\ [][NextMiddle]_vars

\* the children the claim keeps trainable
KeptModules == {"readout", "unit_emb", "session_emb"}

\* C3: freeze_middle returns normally; afterwards every parameter of every
\* child other than readout, unit_emb and session_emb has requires_grad =
\* False, the flags of those three are unchanged, and the returned list is
\* exactly the children that were frozen.
C3_FreezeMiddleContract ==
    [][freeze_middle =>
        /\ mid_result'.kind = "return"
        /\ \A p \in POYOParams :
              IF LayerOf(p) \in KeptModules
              THEN mid_requires_grad'[p] = mid_requires_grad[p]
              ELSE mid_requires_grad'[p] = FALSE
        /\ mid_result'.value = SelectSeq(POYOChildren, LAMBDA m : m \notin KeptModules)]_vars

\* ==================================================== transforms/__init__.py

\* the transforms the package exports
TransformNames == {"UnitDropout", "RandomTimeScaling", "RandomCrop", "RandomOutputSampler"}

\* the objects a caller may hand to a Compose
DataObjects == {<<"data_a">>, <<"data_b">>}

\* transform(data): a value is the term built so far, so the value a transform
\* returns tells which transform made it and from which argument
transform(t, data) == Append(data, t)

\* a loop that walks self.transforms from the back
ReversedTransform(ts, i) == ts[Len(ts) - i]

\* the transform the for loop takes after i iterations
LoopTransform(ts, i) == ts[i + 1]

InitCompose ==
    /\ IdleFinetune /\ IdleMiddle /\ IdleCollate /\ IdleVocab /\ IdleMae
    /\ cmp_transforms \in UNION {[1..n -> TransformNames] : n \in 0..MaxTransforms}
    /\ cmp_input \in DataObjects
    /\ cmp_data = cmp_input
    /\ cmp_i = 0
    /\ cmp_calls = <<>>
    /\ cmp_result = NotCalled

\* one iteration of `for transform in self.transforms: data = transform(data)`
compose_iteration ==
    /\ UNCHANGED notCmpVars
    /\ cmp_result = NotCalled
    /\ cmp_i < Len(cmp_transforms)
    /\ cmp_data' = transform(LoopTransform(cmp_transforms, cmp_i), cmp_data)
    /\ cmp_calls' = Append(cmp_calls, <<LoopTransform(cmp_transforms, cmp_i), cmp_data>>)
    /\ cmp_i' = cmp_i + 1
    /\ UNCHANGED <<cmp_transforms, cmp_input, cmp_result>>

\* `return data`
compose_return ==
    /\ UNCHANGED notCmpVars
    /\ cmp_result = NotCalled
    /\ cmp_i = Len(cmp_transforms)
    /\ cmp_result' = Returned(cmp_data)
    /\ UNCHANGED <<cmp_transforms, cmp_input, cmp_data, cmp_i, cmp_calls>>

NextCompose == compose_iteration \/ compose_return

SpecCompose == InitCompose /\ [][NextCompose]_vars

\* the value after the first k transforms of the list, as the claim states it
RECURSIVE Chained(_, _, _)
Chained(ts, k, data) ==
    IF k = 0 THEN data ELSE Append(Chained(ts, k - 1, data), ts[k])

\* C4: Compose([t1..tn])(data) calls the transforms in list order, each
\* exactly once, each on the value the previous one returned, and returns the
\* value tn returned (data itself when n = 0).
C4_ComposeSequential ==
    cmp_result.kind = "return" =>
        /\ Len(cmp_calls) = Len(cmp_transforms)
        /\ \A k \in 1..Len(cmp_transforms) :
              cmp_calls[k] = <<cmp_transforms[k], Chained(cmp_transforms, k - 1, cmp_input)>>
        /\ cmp_result.value = Chained(cmp_transforms, Len(cmp_transforms), cmp_input)

\* a returned call over three transforms, two of them different
C4_Witness ==
    /\ cmp_result.kind = "return"
    /\ Len(cmp_transforms) = 3
    /\ cmp_transforms[1] # cmp_transforms[3]
    /\ Len(cmp_result.value) = 4

\* ======================================================== data/dataset.py

\* next_multiple_of_8 with the remainder test left out
NextMultipleNoTest(x) == x + (8 - (x % 8))

next_multiple_of_8(x) ==
    LET remainder == x % 8
    IN  IF remainder = 0 THEN x ELSE x + (8 - remainder)

\* SpikeType
SpikeTypeUNIT == 0
SpikeTypeSTART == 1
SpikeTypeEND == 2

Max(S) == CHOOSE x \in S : \A y \in S : y <= x

\* A sample is [nspikes, nunits]: len(data.spikes) and len(data.units.unit_name).
\* Its units are named 1..nunits, spike k was fired by unit ((k-1) % nunits) + 1
\* at tick k, and the sample spans [data.start, data.start + sequence_length].
Samples ==
    {[nspikes |-> 0, nunits |-> 0]} \cup
    [nspikes : 0..MaxSpikes, nunits : 1..MaxUnits]

spikes_names(d) == [k \in 1..d.nspikes |-> ((k - 1) % d.nunits) + 1]
spikes_timestamps(d) == [k \in 1..d.nspikes |-> k]
units_unit_name(d) == [k \in 1..d.nunits |-> k]

\* self.unit_vocab.forward: "NA" is 0 and unit k is k
unit_vocab_forward(names) == [k \in 1..Len(names) |-> names[k]]

\* len(data.spikes) + len(data.units.unit_name) * 2
num_tokens(d) == d.nspikes + d.nunits * 2

\* torch.zeros((rows, cols))
zeros(rows, cols, zero) == [b \in 1..rows |-> [j \in 1..cols |-> zero]]

\* t[i, lo:hi] = v, v a scalar or a sequence of hi - lo values
SetSliceScalar(t, i, lo, hi, v) ==
    [t EXCEPT ![i] = [j \in 1..Len(t[i]) |-> IF lo < j /\ j <= hi THEN v ELSE t[i][j]]]

SetSliceSeq(t, i, lo, hi, v) ==
    [t EXCEPT ![i] = [j \in 1..Len(t[i]) |-> IF lo < j /\ j <= hi THEN v[j - lo] ELSE t[i][j]]]

\* len(torch.arange(0, sequence_length, step)): the k with k * step < sequence_length
arange_len(sequence_length, step) == (sequence_length + step - 1) \div step

\* torch.arange(0, sequence_length, step) + step / 2, in half ticks
latent_timestamps_1d(sequence_length, step) ==
    [k \in 1..arange_len(sequence_length, step) |-> 2 * (k - 1) * step + step]

\* repeat(x, "t -> b (t u)", b, u)
repeat_t(x, b, u) == [r \in 1..b |-> [j \in 1..(Len(x) * u) |-> x[((j - 1) \div u) + 1]]]

\* repeat(x, "u -> b (t u)", b, t), x = torch.arange(u)
repeat_u(u, b, t) == [r \in 1..b |-> [j \in 1..(t * u) |-> (j - 1) % u]]

\* an input_mask that covers the spikes and one event per unit only
InputMaskOneEvent(d) == d.nspikes + d.nunits

\* the extent `input_mask[i, : len(spikes) + len(units) * 2] = True` covers
InputMaskExtent(d) == d.nspikes + d.nunits * 2

\* Collate.__init__ defaults: sequence_length = 1.0, step = 1.0 (one tick is one
\* second) and num_latents_per_step = 1
DefaultSequenceLength == 1
DefaultStep == 1
DefaultNumLatentsPerStep == 1

\* a collator built with the default latent grid, called on any batch
InitCollate ==
    /\ IdleFinetune /\ IdleMiddle /\ IdleCompose /\ IdleVocab /\ IdleMae
    /\ col_sequence_length = DefaultSequenceLength
    /\ col_step = DefaultStep
    /\ col_num_latents_per_step = DefaultNumLatentsPerStep
    /\ col_batch \in UNION {[1..n -> Samples] : n \in 1..MaxBatch}
    /\ col_max_num_tokens = 0
    /\ col_spike_timestamps = <<>> /\ col_spike_ids = <<>> /\ col_spike_type = <<>>
    /\ col_mask = <<>> /\ col_input_mask = <<>>
    /\ col_latent_timestamps = <<>> /\ col_latent_ids = <<>>
    /\ col_i = 0
    /\ col_pc = "call"

\* a collator built with any latent grid, called on batches of short samples
InitCollateLatents ==
    /\ IdleFinetune /\ IdleMiddle /\ IdleCompose /\ IdleVocab /\ IdleMae
    /\ col_sequence_length \in 1..MaxSeqLen
    /\ col_step \in 1..MaxStep
    /\ col_num_latents_per_step \in 1..MaxLatentsPerStep
    /\ col_batch \in UNION {[1..n -> {d \in Samples : d.nspikes <= 1 /\ d.nunits <= 1}]
                                : n \in 1..MaxBatch}
    /\ col_max_num_tokens = 0
    /\ col_spike_timestamps = <<>> /\ col_spike_ids = <<>> /\ col_spike_type = <<>>
    /\ col_mask = <<>> /\ col_input_mask = <<>>
    /\ col_latent_timestamps = <<>> /\ col_latent_ids = <<>>
    /\ col_i = 0
    /\ col_pc = "call"

\* Collate.__call__ up to the fill loop: the padded tensors and the latents
collate_allocate ==
    /\ UNCHANGED notColVars
    /\ col_pc = "call"
    /\ LET B == Len(col_batch)
           W == next_multiple_of_8(Max({num_tokens(col_batch[i]) : i \in 1..B}))
           lt == latent_timestamps_1d(col_sequence_length, col_step)
       IN  /\ col_max_num_tokens' = W
           /\ col_spike_timestamps' = zeros(B, W, 0)
           /\ col_spike_type' = zeros(B, W, 0)
           /\ col_spike_ids' = zeros(B, W, 0)
           /\ col_mask' = zeros(B, W, FALSE)
           /\ col_latent_timestamps' = repeat_t(lt, B, col_num_latents_per_step)
           /\ col_latent_ids' = repeat_u(col_num_latents_per_step, B, Len(lt))
           /\ col_input_mask' = zeros(B, W, FALSE)
    /\ col_pc' = "fill"
    /\ UNCHANGED <<col_sequence_length, col_step, col_num_latents_per_step,
                   col_batch, col_i>>

\* one iteration of the fill loop, for sample i = col_i (0-based)
collate_fill ==
    /\ UNCHANGED notColVars
    /\ col_pc = "fill"
    /\ col_i < Len(col_batch)
    /\ LET i == col_i + 1
           d == col_batch[i]
           ns == d.nspikes
           nu == d.nunits
           mapped_spikes == unit_vocab_forward(
               spikes_names(d) \o units_unit_name(d) \o units_unit_name(d))
           start == 0
           end == col_sequence_length
           ts1 == SetSliceSeq(col_spike_timestamps, i, 0, ns, spikes_timestamps(d))
           ts2 == SetSliceScalar(ts1, i, ns, ns + nu, start)
           ty1 == SetSliceScalar(col_spike_type, i, ns, ns + nu, SpikeTypeSTART)
       IN  /\ col_spike_ids' =
                 SetSliceSeq(col_spike_ids, i, 0, Len(mapped_spikes), mapped_spikes)
           /\ col_spike_timestamps' = SetSliceScalar(ts2, i, ns + nu, ns + nu * 2, end)
           /\ col_mask' = SetSliceScalar(col_mask, i, 0, ns, TRUE)
           /\ col_spike_type' = SetSliceScalar(ty1, i, ns + nu, ns + nu * 2, SpikeTypeEND)
           /\ col_input_mask' =
                 SetSliceScalar(col_input_mask, i, 0, InputMaskExtent(d), TRUE)
    /\ col_i' = col_i + 1
    /\ UNCHANGED <<col_sequence_length, col_step, col_num_latents_per_step,
                   col_batch, col_max_num_tokens, col_latent_timestamps,
                   col_latent_ids, col_pc>>

\* the PaddedGrouping is built and returned as a dict
collate_return ==
    /\ UNCHANGED notColVars
    /\ col_pc = "fill"
    /\ col_i = Len(col_batch)
    /\ col_pc' = "returned"
    /\ UNCHANGED <<col_sequence_length, col_step, col_num_latents_per_step,
                   col_batch, col_max_num_tokens, col_spike_timestamps,
                   col_spike_ids, col_spike_type, col_mask, col_input_mask,
                   col_latent_timestamps, col_latent_ids, col_i>>

NextCollate == collate_allocate \/ collate_fill \/ collate_return

SpecCollate == InitCollate /\ [][NextCollate]_vars

SpecCollateLatents == InitCollateLatents /\ [][NextCollate]_vars

\* C5: every row of latent_timestamps and of latent_ids has exactly
\* (sequence_length / step) * num_latents_per_step entries, for every positive
\* sequence_length, step and num_latents_per_step.  (The quotient is exact, so
\* the count times step equals sequence_length times num_latents_per_step.)
C5_LatentCount ==
    col_pc = "returned" =>
        \A b \in 1..Len(col_batch) :
            /\ Len(col_latent_timestamps[b]) * col_step
                  = col_sequence_length * col_num_latents_per_step
            /\ Len(col_latent_ids[b]) * col_step
                  = col_sequence_length * col_num_latents_per_step

\* C6: input_mask[i][j] is True exactly for j < nspikes_i + 2 * nunits_i (the
\* real spikes and the start/end events) and False on every padding position.
C6_InputMask ==
    col_pc = "returned" =>
        \A i \in 1..Len(col_batch) :
            \A j \in 1..Len(col_input_mask[i]) :
                col_input_mask[i][j]
                    <=> (j - 1 < col_batch[i].nspikes + 2 * col_batch[i].nunits)

\* a returned batch of two samples, the shorter one with spikes, units and padding
C6_Witness ==
    /\ col_pc = "returned"
    /\ Len(col_batch) = 2
    /\ col_batch[1].nspikes > 0 /\ col_batch[1].nunits > 0
    /\ num_tokens(col_batch[1]) < num_tokens(col_batch[2])
    /\ col_input_mask[1][num_tokens(col_batch[1])]
    /\ ~col_input_mask[1][num_tokens(col_batch[1]) + 1]

\* the largest nspikes + 2 * nunits of the batch, as the claim states it
MaxTokensOfBatch ==
    Max({col_batch[i].nspikes + 2 * col_batch[i].nunits : i \in 1..Len(col_batch)})

IsShape(t, rows, cols) == Len(t) = rows /\ \A b \in 1..rows : Len(t[b]) = cols

\* C7: all samples are padded to one width W, the smallest multiple of 8 that
\* is >= the batch maximum of nspikes + 2 * nunits; spike_timestamps,
\* spike_ids, spike_type and input_mask all have shape (batch size, W).
C7_PaddedWidth ==
    col_pc = "returned" =>
        /\ col_max_num_tokens % 8 = 0
        /\ col_max_num_tokens >= MaxTokensOfBatch
        /\ col_max_num_tokens - 8 < MaxTokensOfBatch
        /\ IsShape(col_spike_timestamps, Len(col_batch), col_max_num_tokens)
        /\ IsShape(col_spike_ids, Len(col_batch), col_max_num_tokens)
        /\ IsShape(col_spike_type, Len(col_batch), col_max_num_tokens)
        /\ IsShape(col_input_mask, Len(col_batch), col_max_num_tokens)

\* a returned batch whose longest sample fills a multiple of 8 exactly, beside
\* a shorter sample that had to be padded
C7_Witness ==
    /\ col_pc = "returned"
    /\ Len(col_batch) = 2
    /\ num_tokens(col_batch[1]) = 8
    /\ num_tokens(col_batch[2]) = 3
    /\ col_max_num_tokens = 8
    /\ Len(col_spike_ids[2]) = 8

\* ------------------------------------------------------------ build_vocab

\* unit names a dataset may carry; "NA" is also the name of the special token
UnitNames == {"NA", "unit_a", "unit_b"}

UnitLists == UNION {[1..n -> UnitNames] : n \in 0..MaxNames}

\* an Optional[List[str]] argument: None or a list
OptionalUnitLists == {NoAttr} \cup {Attr(l) : l \in UnitLists}

\* the orders in which iterating a Python set may yield its elements
Orderings(S) ==
    {o \in [1..Cardinality(S) -> S] : \A a, b \in 1..Cardinality(S) : o[a] = o[b] => a = b}

\* set(units).issubset(set(train_units))
issubset(units, train) == Range(units) \subseteq Range(train)

\* torchtext.vocab.vocab(od, specials): the specials are popped from od, the
\* remaining tokens keep od's order, and the specials go in front
vocab(od, specials) ==
    specials \o SelectSeq(od, LAMBDA tok : tok \notin Range(specials))

\* vocab[token]: the index of a token
vocab_index(v, token) == (CHOOSE k \in 1..Len(v) : v[k] = token) - 1

InitVocab ==
    /\ IdleFinetune /\ IdleMiddle /\ IdleCompose /\ IdleCollate /\ IdleMae
    /\ voc_train_units \in UnitLists
    /\ voc_val_units \in OptionalUnitLists
    /\ voc_test_units \in OptionalUnitLists
    /\ voc_result = NotCalled

\* build_vocab(train_units, val_units, test_units)
build_vocab ==
    /\ UNCHANGED notVocVars
    /\ voc_result = NotCalled
    /\ IF \/ hasattr(voc_val_units) /\ ~issubset(getattr(voc_val_units), voc_train_units)
          \/ hasattr(voc_test_units) /\ ~issubset(getattr(voc_test_units), voc_train_units)
       THEN /\ voc_result' = Raised("AssertionError")
            /\ UNCHANGED voc_train_units
       ELSE LET plus_val == IF hasattr(voc_val_units)
                            THEN voc_train_units \o getattr(voc_val_units)
                            ELSE voc_train_units
                unit_names == IF hasattr(voc_test_units)
                              THEN plus_val \o getattr(voc_test_units)
                              ELSE plus_val
            IN  \* `unit_names += ...` extends the caller's train_units in place
                /\ voc_train_units' = unit_names
                /\ \E od \in Orderings(Range(unit_names)) :
                      voc_result' = Returned(vocab(od, <<"NA">>))
    /\ UNCHANGED <<voc_val_units, voc_test_units>>

NextVocab == build_vocab

SpecVocab == InitVocab /\ [][NextVocab]_vars

\* the distinct unit names of the three lists
AllUnitNames ==
    Range(voc_train_units)
        \cup (IF hasattr(voc_val_units) THEN Range(getattr(voc_val_units)) ELSE {})
        \cup (IF hasattr(voc_test_units) THEN Range(getattr(voc_test_units)) ELSE {})

\* the call has returned a vocabulary or raised
VocabCalled == voc_result.kind # "none"

\* C8: build_vocab fails its assertion when val_units or test_units has a name
\* that is not in train_units; otherwise "NA" has index 0, every distinct unit
\* name has its own distinct index >= 1, and the vocabulary size is the number
\* of distinct unit names plus one.
C8_BuildVocab ==
    VocabCalled =>
        IF ~(AllUnitNames \subseteq Range(voc_train_units))
        THEN voc_result.kind = "AssertionError"
        ELSE /\ voc_result.kind = "return"
             /\ vocab_index(voc_result.value, "NA") = 0
             /\ \A u \in AllUnitNames :
                   \E k \in 2..Len(voc_result.value) :
                       /\ voc_result.value[k] = u
                       /\ \A m \in 1..Len(voc_result.value) :
                             voc_result.value[m] = u => m = k
             /\ Len(voc_result.value) = Cardinality(AllUnitNames) + 1

\* =========================================================== ndt2/model.py

\* self.mask_ratio is a rational <<numerator, denominator>> in [0, 1]
MaskRatios == {<<0, 1>>, <<1, 4>>, <<1, 3>>, <<1, 2>>, <<2, 3>>, <<3, 4>>, <<1, 1>>}

\* self.mode: the four modes forward knows and one it does not
MaskModes == {"temporal", "neuron", "forward-pred", "random", "causal"}

keys == <<"spike_tokens", "time_idx", "space_idx", "channel_counts">>

\* batch[key] = value
Put(batch, key, value) ==
    [k \in DOMAIN batch \cup {key} |-> IF k = key THEN value ELSE batch[k]]

\* A batch of B samples over a grid of T time patches by S space patches:
\* patch j (0-based) sits at time j \div S and space j % S, its token is a
\* nonzero value of its own and it counts S channels.
GridBatch(B, T, S) ==
    [k \in Range(keys) |->
        [b \in 1..B |-> [j \in 1..(T * S) |->
            CASE k = "spike_tokens" -> (b - 1) * T * S + j
              [] k = "time_idx" -> (j - 1) \div S
              [] k = "space_idx" -> (j - 1) % S
              [] OTHER -> S]]]

\* len(torch.unique(t))
num_unique(t) == Cardinality(UNION {Range(t[b]) : b \in 1..Len(t)})

\* torch.arange(n)
arange(n) == [i \in 1..n |-> i - 1]

\* int(ratio * n) for a ratio >= 0
int_times(ratio, n) == (ratio[1] * n) \div ratio[2]

\* int((1 - ratio) * n)
int_one_minus_times(ratio, n) == ((ratio[2] - ratio[1]) * n) \div ratio[2]

\* mask = zeros(n); mask[-k:] = 1.  A negative start counts from the end, and
\* -0 is 0: the slice [-0:] is the whole tensor.
ones_from_minus(n, k) ==
    LET start == IF k = 0 THEN 0 ELSE IF k > n THEN 0 ELSE n - k
    IN  [t \in 1..n |-> t > start]

\* the values torch.bernoulli may draw at probability ratio
bernoulli(ratio) ==
    IF ratio[1] = 0 THEN {FALSE} ELSE IF ratio[1] = ratio[2] THEN {TRUE} ELSE BOOLEAN

\* eval mode reading the batch dimension instead of the patch dimension
SizeZero(spikes) == Len(spikes)

\* spikes.size(1), as the eval branch reads it
size1(spikes) == Len(spikes[1])

\* B, total_patches, P, Q = spikes.shape
shape0(spikes) == Len(spikes)
shape1(spikes) == Len(spikes[1])

\* the masks forward may compute in training mode, each of shape (B, T*N)
Masks(batch, mode, ratio) ==
    LET spikes == batch["spike_tokens"]
        time_idx == batch["time_idx"]
        space_idx == batch["space_idx"]
        B == shape0(spikes)
        total_patches == shape1(spikes)
        num_temporal_patches == num_unique(time_idx)
        num_spatial_patches == num_unique(space_idx)
    IN  CASE mode \in {"temporal", "forward-pred"} ->
               LET num_to_mask == int_times(ratio, num_temporal_patches)
                   mask == ones_from_minus(num_temporal_patches, num_to_mask)
               IN  {[b \in 1..B |-> [j \in 1..total_patches |-> mask[time_idx[b][j] + 1]]]}
          [] mode = "neuron" ->
               {[b \in 1..B |-> [j \in 1..total_patches |-> m[b][space_idx[1][j] + 1]]] :
                   m \in [1..B -> [1..num_spatial_patches -> bernoulli(ratio)]]}
          [] mode = "random" ->
               [1..B -> [1..total_patches -> bernoulli(ratio)]]
          [] OTHER -> {}

\* batch[k].masked_fill(expanded_mask, 0)
masked_fill(t, mask) ==
    [b \in 1..Len(t) |-> [j \in 1..Len(t[b]) |-> IF mask[b][j] THEN 0 ELSE t[b][j]]]

\* the batch dict after the eval-mode branch
EvalBatch(batch) ==
    LET spikes == batch["spike_tokens"]
        b1 == Put(batch, "shuffle", arange(size1(spikes)))
        b2 == Put(b1, "encoder_frac", size1(spikes))
        b3 == Put(b2, "spike_tokens_target", b2["spike_tokens"])
        b4 == Put(b3, "time_idx_target", b3["time_idx"])
        b5 == Put(b4, "space_idx_target", b4["space_idx"])
    IN  Put(b5, "channel_counts_target", b5["channel_counts"])

\* the batch dict after steps 2 and 3 and the metadata update
MaskedBatch(batch, mask, ratio) ==
    LET total_patches == shape1(batch["spike_tokens"])
        b0 == Put(batch, "spike_tokens_target_mask", mask)
        b1 == Put(b0, "spike_tokens_target", b0["spike_tokens"])
        b2 == Put(b1, "spike_tokens", masked_fill(b1["spike_tokens"], mask))
        b3 == Put(b2, "time_idx_target", b2["time_idx"])
        b4 == Put(b3, "space_idx_target", b3["space_idx"])
        b5 == Put(b4, "channel_counts_target", b4["channel_counts"])
        b6 == Put(b5, "encoder_frac", int_one_minus_times(ratio, total_patches))
    IN  Put(b6, "shuffle", arange(total_patches))

InitMae ==
    /\ IdleFinetune /\ IdleMiddle /\ IdleCompose /\ IdleCollate /\ IdleVocab
    /\ mae_mask_ratio \in MaskRatios
    /\ mae_mode \in MaskModes
    /\ mae_eval_mode \in BOOLEAN
    /\ \E B \in 1..MaxMaeBatch, T \in 1..MaxTime, S \in 1..MaxSpace :
          /\ mae_mode = "random" => B * T * S <= MaxRandomTokens
          /\ mae_batch = GridBatch(B, T, S)
    /\ mae_result = NotCalled

\* MaeMaskManager.forward(batch, eval_mode)
forward ==
    /\ UNCHANGED notMaeVars
    /\ mae_result = NotCalled
    /\ IF mae_eval_mode
       THEN /\ mae_batch' = EvalBatch(mae_batch)
            /\ mae_result' = Returned(<<>>)
       ELSE IF mae_mode \notin {"temporal", "neuron", "forward-pred", "random"}
       THEN /\ mae_result' = Raised("ValueError")
            /\ UNCHANGED mae_batch
       ELSE /\ \E mask \in Masks(mae_batch, mae_mode, mae_mask_ratio) :
                  mae_batch' = MaskedBatch(mae_batch, mask, mae_mask_ratio)
            /\ mae_result' = Returned(<<>>)
    /\ UNCHANGED <<mae_mask_ratio, mae_mode, mae_eval_mode>>

NextMae == forward

SpecMae == InitMae /\ [][NextMae]_vars

\* C9: forward(batch, eval_mode=True) leaves spike_tokens unchanged, makes each
\* of the four *_target entries equal to the corresponding input, sets shuffle
\* to the identity permutation 0..N-1 and encoder_frac to the number of
\* patches N.
C9_EvalModeIdentity ==
    [][(mae_eval_mode /\ mae_result.kind = "none" /\ mae_result'.kind # "none") =>
        LET N == Len(mae_batch["spike_tokens"][1])
        IN  /\ mae_result'.kind = "return"
            /\ mae_batch'["spike_tokens"] = mae_batch["spike_tokens"]
            /\ mae_batch'["spike_tokens_target"] = mae_batch["spike_tokens"]
            /\ mae_batch'["time_idx_target"] = mae_batch["time_idx"]
            /\ mae_batch'["space_idx_target"] = mae_batch["space_idx"]
            /\ mae_batch'["channel_counts_target"] = mae_batch["channel_counts"]
            /\ mae_batch'["shuffle"] = [i \in 1..N |-> i - 1]
            /\ mae_batch'["encoder_frac"] = N]_vars

\* an eval-mode call that has returned on a batch of two samples of six patches
C9_Witness ==
    /\ mae_eval_mode
    /\ mae_result.kind = "return"
    /\ Len(mae_batch["spike_tokens"]) = 2
    /\ Len(mae_batch["shuffle"]) = 6
    /\ mae_batch["encoder_frac"] = 6

\* C10: in mode "temporal" (and "forward-pred"), with time indices 0..T-1, a
\* training-mode forward masks a token if and only if its time index is one of
\* the last int(mask_ratio * T) time indices, for every mask_ratio in [0, 1]
\* and every T >= 1.
C10_TemporalMask ==
    (mae_result.kind = "return" /\ ~mae_eval_mode
            /\ mae_mode \in {"temporal", "forward-pred"}) =>
        LET T == Cardinality(UNION {Range(mae_batch["time_idx"][b])
                                        : b \in 1..Len(mae_batch["time_idx"])})
            last == (mae_mask_ratio[1] * T) \div mae_mask_ratio[2]
        IN  \A b \in 1..Len(mae_batch["time_idx"]) :
                \A j \in 1..Len(mae_batch["time_idx"][b]) :
                    mae_batch["spike_tokens_target_mask"][b][j]
                        <=> (mae_batch["time_idx"][b][j] >= T - last)

====
